---- MODULE Spec2Model ----
(***************************************************************************)
(* Model of script.js: the RSI computation (computeRsi), its use by the    *)
(* strategy page (initStrategyPage) and the dashboard's fetchData calls.   *)
(*                                                                         *)
(* JavaScript numbers are modelled as exact fractions <<n, d>> with d >= 0 *)
(* in lowest terms.  d = 0 encodes the non-finite values: <<0, 0>> is NaN, *)
(* <<1, 0>> is Infinity and <<-1, 0>> is -Infinity.  Rounding of doubles   *)
(* is not modelled.  null is the empty tuple.                              *)
(***************************************************************************)
EXTENDS Integers, Sequences, FiniteSets, TLC

VARIABLES
    \* ---- computeRsi and its caller ----
    pc,         \* position in computeRsi / its caller
    caller,     \* "direct" or "strategy" (initStrategyPage, line 287)
    closes,     \* argument closes
    length,     \* argument length (the window)
    deltas,     \* const deltas
    i,          \* loop variable of the loop being run
    up, down,   \* let up, down
    rs,         \* let rs
    rsi,        \* const rsi
    avgUp, avgDown,
    outcome,    \* "running", "returned" or "threw"
    rsiPoints,  \* what initStrategyPage hands to rsiSeries.setData
    \* ---- dashboard ----
    tfSelect,     \* tfSelect.value
    btnDisabled,  \* refreshBtn.disabled
    btnText,      \* refreshBtn.textContent
    btnLabel,     \* refreshBtn.dataset.label ("" when unset)
    calls,        \* fetchData calls in flight: records [id, interval, stage]
    nCalls,       \* number of fetchData calls started
    chartData,    \* interval of the candles last given to candleSeries.setData
    priceLabel,   \* interval shown in lastPriceEl
    timerOn,      \* setInterval(fetchData, 60000) has been installed
    failed        \* some fetchData call ended in its catch block

rsiVars == <<pc, caller, closes, length, deltas, i, up, down, rs, rsi,
             avgUp, avgDown, outcome, rsiPoints>>
dashVars == <<tfSelect, btnDisabled, btnText, btnLabel, calls, nCalls,
              chartData, priceLabel, timerOn, failed>>
vars == <<rsiVars, dashVars>>

----------------------------------------------------------------------------
\* Bounds of the model.
MaxLen == 4        \* longest short closes sequence
MaxPrice == 3      \* short closes take prices 1..MaxPrice
MaxWindow == 2     \* largest window of a direct call
MaxTail == 2       \* closes appended to a 15-candle history
MaxCalls == 4      \* fetchData calls started in one run

\* Program constant: the window initStrategyPage passes (and the default).
RsiLength == 14

----------------------------------------------------------------------------
\* JavaScript number arithmetic on fractions.

Abs(x) == IF x < 0 THEN -x ELSE x

RECURSIVE GcdNat(_, _)
GcdNat(a, b) == IF b = 0 THEN a ELSE GcdNat(b, a % b)

Gcd(a, b) == GcdNat(Abs(a), Abs(b))

Gcd1(a, b) == IF Gcd(a, b) = 0 THEN 1 ELSE Gcd(a, b)

\* lowest terms, denominator >= 0
Norm(q) ==
    LET g == Gcd1(q[1], q[2])
        s == IF q[2] < 0 THEN -1 ELSE 1
    IN  <<s * (q[1] \div g), s * (q[2] \div g)>>

Num(n) == <<n, 1>>
Frac(n, d) == Norm(<<n, d>>)
NaN == <<0, 0>>
Null == <<>>

IsNaN(x) == x = NaN
IsFinite(x) == x[2] # 0

\* x + y
Add(x, y) ==
    LET g == Gcd1(x[2], y[2])
    IN  Norm(<<x[1] * (y[2] \div g) + y[1] * (x[2] \div g), (x[2] \div g) * y[2]>>)

Neg(x) == <<-x[1], x[2]>>

\* x - y
Sub(x, y) == Add(x, Neg(y))

\* x * y
Mul(x, y) ==
    LET g1 == Gcd1(x[1], y[2])
        g2 == Gcd1(y[1], x[2])
    IN  Norm(<<(x[1] \div g1) * (y[1] \div g2), (x[2] \div g2) * (y[2] \div g1)>>)

\* 1 / y (1 / 0 is Infinity, 1 / Infinity is 0, 1 / NaN is NaN)
Recip(y) ==
    IF y[1] = 0 THEN Norm(<<y[2], 0>>)
    ELSE IF y[1] > 0 THEN <<y[2], y[1]>>
    ELSE <<-y[2], -y[1]>>

\* x / y
Div(x, y) == Mul(x, Recip(y))

\* Math.abs left out: the value itself
MathAbsId(x) == x

\* Math.abs(x)
MathAbs(x) == <<Abs(x[1]), x[2]>>

\* x >= 0 (false for NaN)
GeZero(x) == ~IsNaN(x) /\ x[1] >= 0

\* x === 0
IsZero(x) == x[1] = 0 /\ x[2] # 0

----------------------------------------------------------------------------
\* computeRsi (lines 396-421), helpers.

\* deltas[k] for a 0-based k.  Out of range JavaScript gives undefined, and
\* both uses of d (d >= 0, Math.abs(d)) convert it to NaN.
DeltaAt(ds, k) == IF k >= 0 /\ k < Len(ds) THEN ds[k + 1] ELSE NaN

\* deltas.slice(0, end): a negative end counts from the back
SliceTo(ds, end) ==
    LET e == IF end < 0 THEN (IF Len(ds) + end < 0 THEN 0 ELSE Len(ds) + end)
             ELSE (IF end > Len(ds) THEN Len(ds) ELSE end)
    IN  SubSeq(ds, 1, e)

\* seed.forEach((d) => { if (d >= 0) up += d; else down += Math.abs(d); })
RECURSIVE SeedFold(_, _, _)
SeedFold(seed, u, dn) ==
    IF seed = <<>> THEN <<u, dn>>
    ELSE IF GeZero(Head(seed))
         THEN SeedFold(Tail(seed), Add(u, Head(seed)), dn)
         ELSE SeedFold(Tail(seed), u, Add(dn, MathAbs(Head(seed))))

\* the ratio without the zero check: up / down
RelStrengthUnguarded(u, dn) == Div(u, dn)

\* the ratio upside down: down / (up === 0 ? 1 : up)
RelStrengthInverted(u, dn) == Div(dn, IF IsZero(u) THEN Num(1) ELSE u)

\* up / (down === 0 ? 1 : down)
RelStrength(u, dn) == Div(u, IF IsZero(dn) THEN Num(1) ELSE dn)

\* 100 - 100 / (1 + rs)
RsiValue(r) == Sub(Num(100), Div(Num(100), Add(Num(1), r)))

\* the smoothing without the weight of the old average: (avg + d) / length
SmoothNoWeight(avg, d, len) == Div(Add(avg, d), Num(len))

\* (avg * (length - 1) + d) / length
Smooth(avg, d, len) == Div(Add(Mul(avg, Num(len - 1)), d), Num(len))

\* (avg * (length - 1)) / length
Decay(avg, len) == Div(Mul(avg, Num(len - 1)), Num(len))

\* while (rsi.length < closes.length) rsi.unshift(null)
RECURSIVE PadLeft(_, _)
PadLeft(r, n) == IF Len(r) < n THEN PadLeft(<<Null>> \o r, n) ELSE r

----------------------------------------------------------------------------
\* Strategy page (lines 287-290), helpers.

\* candles[k].time of the k-th candle (0-based) of a 10-minute series;
\* times[k] is undefined (modelled as null) past the last candle
CandleTime(k, n) == IF k < n THEN 600 * k ELSE Null

\* JavaScript truthiness of a point's value: null, NaN and 0 are falsy
Truthy(v) == v # Null /\ ~IsNaN(v) /\ ~IsZero(v)

\* the predicate of .filter((v) => v.value)
KeepPoint(p) == Truthy(p.value)

\* rsiVals.map((v, i) => ({ time: times[i], value: v }))
MapPoints(vals, n) == [k \in 1..Len(vals) |-> [time |-> CandleTime(k - 1, n), value |-> vals[k]]]

RECURSIVE FilterPoints(_)
FilterPoints(ps) ==
    IF ps = <<>> THEN <<>>
    ELSE IF KeepPoint(Head(ps)) THEN <<Head(ps)>> \o FilterPoints(Tail(ps))
         ELSE FilterPoints(Tail(ps))

----------------------------------------------------------------------------
\* Inputs.

RECURSIVE SeqsUpTo(_, _)
SeqsUpTo(S, n) ==
    IF n = 0 THEN {<<>>}
    ELSE SeqsUpTo(S, n - 1) \cup
         {Append(s, x) : s \in {t \in SeqsUpTo(S, n - 1) : Len(t) = n - 1}, x \in S}

Cents(c) == Frac(c, 100)

\* the closes of the concrete scenario, in cents
ScenarioCents == <<4400, 4425, 4450, 4375, 4465, 4510, 4540, 4620, 4600, 4540,
                   4600, 4650, 4630, 4580, 4550>>
Scenario15 == [k \in 1..(RsiLength + 1) |-> Cents(ScenarioCents[k])]
Flat15 == [k \in 1..(RsiLength + 1) |-> Num(44)]
Rising15 == [k \in 1..(RsiLength + 1) |-> Num(29 + k)]
Falling15 == [k \in 1..(RsiLength + 1) |-> Num(59 - k)]

Histories == {Scenario15, Flat15, Rising15, Falling15}
TailPrices == {Num(44), Num(45), Cents(4690)}

ShortCloses == SeqsUpTo({Num(p) : p \in 1..MaxPrice}, MaxLen)
LongCloses == {h \o t : h \in Histories, t \in SeqsUpTo(TailPrices, MaxTail)}

Windows == (-1)..MaxWindow

----------------------------------------------------------------------------
\* computeRsi, one action per step.  pc:
\*   "deltas"  the loop of line 398      "pad"   the loop of line 405
\*   "roll"    the loop of lines 407-418 "render" back in initStrategyPage
\*   "done"

InitRsi ==
    /\ pc = "deltas"
    /\ \/ /\ caller = "strategy"
          /\ length = RsiLength
          /\ closes \in ShortCloses \cup LongCloses
       \/ /\ caller = "direct"
          /\ length \in Windows
          /\ closes \in ShortCloses
    /\ deltas = <<>>
    /\ i = 1
    /\ up = Null /\ down = Null /\ rs = Null
    /\ rsi = <<>>
    /\ avgUp = Null /\ avgDown = Null
    /\ outcome = "running"
    /\ rsiPoints = Null

\* line 398, one iteration: deltas.push(closes[i] - closes[i - 1])
DeltaStep ==
    /\ pc = "deltas"
    /\ i < Len(closes)
    /\ deltas' = Append(deltas, Sub(closes[i + 1], closes[i]))
    /\ i' = i + 1
    /\ UNCHANGED <<pc, caller, closes, length, up, down, rs, rsi, avgUp, avgDown,
                   outcome, rsiPoints>>
    /\ UNCHANGED dashVars

\* lines 399-404: the seed averages, the first rs, the empty rsi
Seed ==
    /\ pc = "deltas"
    /\ ~(i < Len(closes))
    /\ LET sums == SeedFold(SliceTo(deltas, length), Num(0), Num(0))
           u == Div(sums[1], Num(length))
           dn == Div(sums[2], Num(length))
       IN  /\ up' = u
           /\ down' = dn
           /\ rs' = RelStrength(u, dn)
    /\ rsi' = <<>>
    /\ i' = 0
    /\ pc' = "pad"
    /\ UNCHANGED <<caller, closes, length, deltas, avgUp, avgDown, outcome, rsiPoints>>
    /\ UNCHANGED dashVars

\* line 405, one iteration: rsi.push(null)
Pad ==
    /\ pc = "pad"
    /\ i <= length
    /\ rsi' = Append(rsi, Null)
    /\ i' = i + 1
    /\ UNCHANGED <<pc, caller, closes, length, deltas, up, down, rs, avgUp, avgDown,
                   outcome, rsiPoints>>
    /\ UNCHANGED dashVars

\* the rolling loop started one delta late: i = length + 1
StartRollLate ==
    /\ pc = "pad"
    /\ ~(i <= length)
    /\ avgUp' = up
    /\ avgDown' = down
    /\ i' = length + 1
    /\ pc' = "roll"
    /\ UNCHANGED <<caller, closes, length, deltas, up, down, rs, rsi, outcome, rsiPoints>>
    /\ UNCHANGED dashVars

\* line 406 and the start of the loop of line 407
StartRoll ==
    /\ pc = "pad"
    /\ ~(i <= length)
    /\ avgUp' = up
    /\ avgDown' = down
    /\ i' = length
    /\ pc' = "roll"
    /\ UNCHANGED <<caller, closes, length, deltas, up, down, rs, rsi, outcome, rsiPoints>>
    /\ UNCHANGED dashVars

\* lines 408-417, the branch d >= 0
RollGain ==
    /\ pc = "roll"
    /\ i < Len(deltas)
    /\ GeZero(DeltaAt(deltas, i))
    /\ LET d == DeltaAt(deltas, i)
           au == Smooth(avgUp, d, length)
           ad == Decay(avgDown, length)
       IN  /\ avgUp' = au
           /\ avgDown' = ad
           /\ rs' = RelStrength(au, ad)
           /\ rsi' = Append(rsi, RsiValue(RelStrength(au, ad)))
    /\ i' = i + 1
    /\ UNCHANGED <<pc, caller, closes, length, deltas, up, down, outcome, rsiPoints>>
    /\ UNCHANGED dashVars

\* lines 408-417, the else branch
RollLoss ==
    /\ pc = "roll"
    /\ i < Len(deltas)
    /\ ~GeZero(DeltaAt(deltas, i))
    /\ LET d == DeltaAt(deltas, i)
           au == Decay(avgUp, length)
           ad == Smooth(avgDown, MathAbs(d), length)
       IN  /\ avgUp' = au
           /\ avgDown' = ad
           /\ rs' = RelStrength(au, ad)
           /\ rsi' = Append(rsi, RsiValue(RelStrength(au, ad)))
    /\ i' = i + 1
    /\ UNCHANGED <<pc, caller, closes, length, deltas, up, down, outcome, rsiPoints>>
    /\ UNCHANGED dashVars

\* lines 419-420: left-pad to closes.length and return
Return ==
    /\ pc = "roll"
    /\ ~(i < Len(deltas))
    /\ rsi' = PadLeft(rsi, Len(closes))
    /\ outcome' = "returned"
    /\ pc' = IF caller = "strategy" THEN "render" ELSE "done"
    /\ UNCHANGED <<caller, closes, length, deltas, i, up, down, rs, avgUp, avgDown,
                   rsiPoints>>
    /\ UNCHANGED dashVars

\* initStrategyPage, lines 288-290: the points given to rsiSeries.setData
Render ==
    /\ pc = "render"
    /\ rsiPoints' = FilterPoints(MapPoints(rsi, Len(closes)))
    /\ pc' = "done"
    /\ UNCHANGED <<caller, closes, length, deltas, i, up, down, rs, rsi, avgUp, avgDown,
                   outcome>>
    /\ UNCHANGED dashVars

InitDashIdle ==
    /\ tfSelect = "15m"
    /\ btnDisabled = FALSE
    /\ btnText = "Refresh"
    /\ btnLabel = ""
    /\ calls = {}
    /\ nCalls = 0
    /\ chartData = "none"
    /\ priceLabel = "none"
    /\ timerOn = FALSE
    /\ failed = FALSE

Init == InitRsi /\ InitDashIdle

Next ==
    \/ DeltaStep
    \/ Seed
    \/ Pad
    \/ StartRoll
    \/ RollGain
    \/ RollLoss
    \/ Return
    \/ Render

Spec == Init /\ [][Next]_vars

----------------------------------------------------------------------------
\* Dashboard (initDashboard, lines 73-230).  A fetchData call in flight is a
\* record [id, interval, stage]: stage "fetch" waits at line 129 (await
\* fetch), stage "json" at line 130 (await resp.json()).

Timeframes == {"1m", "5m", "15m", "1h"}

\* setLoading(state, btn, label), lines 11-16, as the button's new fields
SetLoading(state, label) ==
    LET kept == IF btnLabel # "" THEN btnLabel ELSE btnText
    IN  [disabled |-> state, dlabel |-> kept, text |-> IF state THEN label ELSE kept]

\* fetchData up to its first await (lines 126-129)
StartFetch(interval) ==
    /\ nCalls < MaxCalls
    /\ LET b == SetLoading(TRUE, "Refreshing...")
       IN  /\ btnDisabled' = b.disabled
           /\ btnLabel' = b.dlabel
           /\ btnText' = b.text
    /\ calls' = calls \cup {[id |-> nCalls + 1, interval |-> interval, stage |-> "fetch"]}
    /\ nCalls' = nCalls + 1

\* the finally block (line 194) and, for the call initDashboard awaits
\* (line 228), the setInterval of line 229
Finally(c) ==
    /\ LET b == SetLoading(FALSE, "Refresh")
       IN  /\ btnDisabled' = b.disabled
           /\ btnLabel' = b.dlabel
           /\ btnText' = b.text
    /\ calls' = calls \ {c}
    /\ timerOn' = (timerOn \/ c.id = 1)

InitDash ==
    /\ InitDashIdle
    /\ pc = "done" /\ caller = "direct" /\ closes = <<>> /\ length = RsiLength
    /\ deltas = <<>> /\ i = 0 /\ up = Null /\ down = Null /\ rs = Null
    /\ rsi = <<>> /\ avgUp = Null /\ avgDown = Null
    /\ outcome = "returned" /\ rsiPoints = Null

\* line 228: await fetchData(), the first call
FirstFetch ==
    /\ nCalls = 0
    /\ StartFetch(tfSelect)
    /\ UNCHANGED <<tfSelect, chartData, priceLabel, timerOn, failed>>
    /\ UNCHANGED rsiVars

\* line 223: click on refreshBtn (a disabled button dispatches no click)
ClickRefresh ==
    /\ nCalls > 0
    /\ ~btnDisabled
    /\ StartFetch(tfSelect)
    /\ UNCHANGED <<tfSelect, chartData, priceLabel, timerOn, failed>>
    /\ UNCHANGED rsiVars

\* line 224: the user picks another timeframe
ChangeTimeframe ==
    /\ nCalls > 0
    /\ \E v \in Timeframes \ {tfSelect} :
          /\ tfSelect' = v
          /\ StartFetch(v)
    /\ UNCHANGED <<chartData, priceLabel, timerOn, failed>>
    /\ UNCHANGED rsiVars

\* line 229: the 60 s timer fires
TimerTick ==
    /\ timerOn
    /\ StartFetch(tfSelect)
    /\ UNCHANGED <<tfSelect, chartData, priceLabel, timerOn, failed>>
    /\ UNCHANGED rsiVars

\* line 129: the response arrives
FetchResolved ==
    /\ \E c \in calls :
          /\ c.stage = "fetch"
          /\ calls' = (calls \ {c}) \cup {[c EXCEPT !.stage = "json"]}
    /\ UNCHANGED <<tfSelect, btnDisabled, btnText, btnLabel, nCalls, chartData,
                   priceLabel, timerOn, failed>>
    /\ UNCHANGED rsiVars

\* lines 130-189 then 193-195: the body parses and holds candles
\* (nonEmpty: candles.at(-1) exists, so the last-price label is written)
RenderCandles ==
    /\ \E c \in calls, nonEmpty \in BOOLEAN :
          /\ c.stage = "json"
          /\ chartData' = c.interval
          /\ priceLabel' = IF nonEmpty THEN c.interval ELSE priceLabel
          /\ Finally(c)
    /\ UNCHANGED <<tfSelect, nCalls, failed>>
    /\ UNCHANGED rsiVars

\* lines 129-131 then 191-195: fetch or json rejects, or the body has no
\* candles; the catch block logs and the finally block runs
FetchFailed ==
    /\ \E c \in calls :
          /\ failed' = TRUE
          /\ Finally(c)
    /\ UNCHANGED <<tfSelect, nCalls, chartData, priceLabel>>
    /\ UNCHANGED rsiVars

NextDash ==
    \/ FirstFetch
    \/ ClickRefresh
    \/ ChangeTimeframe
    \/ TimerTick
    \/ FetchResolved
    \/ RenderCandles
    \/ FetchFailed

SpecDash == InitDash /\ [][NextDash]_vars

----------------------------------------------------------------------------
\* Properties.

Returned == outcome = "returned"
Defined(v) == v # Null
Entries == 1..Len(rsi)

\* x <= y and x < y on values that are not NaN
Le(x, y) == GeZero(Sub(y, x))
Lt(x, y) == Le(x, y) /\ x # y

IsFlat(cs) == \A k \in 1..(Len(cs) - 1) : cs[k + 1] = cs[k]

\* every successive difference is the same positive step
IsRamp(cs) ==
    /\ Len(cs) >= 2
    /\ Lt(cs[1], cs[2])
    /\ \A k \in 1..(Len(cs) - 1) : Sub(cs[k + 1], cs[k]) = Sub(cs[2], cs[1])

Scenario16 == Scenario15 \o <<Cents(4690)>>

\* C1: for a positive window, computeRsi returns as many entries as closes has.
C1_LengthMatches ==
    (Returned /\ length > 0) => Len(rsi) = Len(closes)

\* C2: for a positive window computeRsi never raises, and a returned entry is
\* null exactly when its 0-based index is <= window; the other entries are
\* finite numbers.
C2_LeadingUndefined ==
    /\ outcome # "threw"
    /\ (Returned /\ length > 0) =>
          \A k \in Entries :
             /\ (rsi[k] = Null) <=> (k - 1 <= length)
             /\ Defined(rsi[k]) => IsFinite(rsi[k])

C2_Witness ==
    /\ Returned /\ length > 0
    /\ Len(closes) > length + 1
    /\ Len(rsi) > length + 1
    /\ Defined(rsi[Len(rsi)])

\* C3 as stated: on a flat sequence longer than window + 1 every defined entry
\* is exactly 50.
C3_FlatIsFifty ==
    (Returned /\ length > 0 /\ IsFlat(closes) /\ Len(closes) > length + 1) =>
        \A k \in Entries : Defined(rsi[k]) => rsi[k] = Num(50)

\* C3 amended: on a flat sequence longer than window + 1 the averages are 0
\* at the seed and after every update, and every defined entry is exactly 0.
C3_FlatIsZero ==
    (length > 0 /\ IsFlat(closes) /\ Len(closes) > length + 1) =>
        /\ Defined(up) => (up = Num(0) /\ down = Num(0))
        /\ Defined(avgUp) => (avgUp = Num(0) /\ avgDown = Num(0))
        /\ \A k \in Entries : Defined(rsi[k]) => rsi[k] = Num(0)

C3_Witness ==
    /\ Returned /\ length > 0 /\ IsFlat(closes) /\ Len(closes) > length + 1
    /\ rsi[Len(rsi)] = Num(0)

\* C4 as stated: on a ramp (constant positive step) longer than window + 1
\* the average loss stays 0 and every defined entry is 100.
C4_RampIsHundred ==
    (Returned /\ length > 0 /\ IsRamp(closes) /\ Len(closes) > length + 1) =>
        /\ avgDown = Num(0)
        /\ \A k \in Entries : Defined(rsi[k]) => rsi[k] = Num(100)

\* C4 amended: on such a ramp the average loss is 0 at the seed and after
\* every update, and every defined entry is 100 * step / (1 + step).
C4_RampValue ==
    (length > 0 /\ IsRamp(closes) /\ Len(closes) > length + 1) =>
        LET step == Sub(closes[2], closes[1])
        IN  /\ Defined(down) => down = Num(0)
            /\ Defined(avgDown) => avgDown = Num(0)
            /\ \A k \in Entries :
                  Defined(rsi[k]) =>
                      /\ rsi[k] = Div(Mul(Num(100), step), Add(Num(1), step))
                      /\ Lt(rsi[k], Num(100))

C4_Witness ==
    /\ Returned /\ length > 0 /\ IsRamp(closes) /\ Len(closes) > length + 1
    /\ Defined(rsi[Len(rsi)])
    /\ avgDown = Num(0)

\* C5: for a positive window the averages and rs are never negative, and
\* every defined entry lies in [0, 100].
C5_BoundedRange ==
    length > 0 =>
        /\ Defined(up) => (IsFinite(up) /\ GeZero(up) /\ IsFinite(down) /\ GeZero(down))
        /\ Defined(avgUp) =>
              (IsFinite(avgUp) /\ GeZero(avgUp) /\ IsFinite(avgDown) /\ GeZero(avgDown))
        /\ Defined(rs) => (IsFinite(rs) /\ GeZero(rs))
        /\ \A k \in Entries :
              Defined(rsi[k]) =>
                  (IsFinite(rsi[k]) /\ Le(Num(0), rsi[k]) /\ Le(rsi[k], Num(100)))

C5_Witness ==
    /\ Returned /\ length > 0
    /\ ~IsZero(avgUp) /\ ~IsZero(avgDown)
    /\ \E k \in Entries :
          Defined(rsi[k]) /\ Lt(Num(0), rsi[k]) /\ Lt(rsi[k], Num(100))

\* C6: with window 14 the 15 closes of the scenario give 15 null entries;
\* with 46.9 appended they give 16 entries, 15 null and the last one a number
\* greater than 50.
C6_Scenario ==
    (Returned /\ length = 14) =>
        /\ closes = Scenario15 =>
              (Len(rsi) = 15 /\ \A k \in Entries : rsi[k] = Null)
        /\ closes = Scenario16 =>
              /\ Len(rsi) = 16
              /\ \A k \in 1..15 : rsi[k] = Null
              /\ Defined(rsi[16]) /\ IsFinite(rsi[16]) /\ Lt(Num(50), rsi[16])

C6_Witness ==
    /\ Returned /\ length = 14 /\ closes = Scenario16
    /\ Len(rsi) = 16 /\ Defined(rsi[16])

\* C7: a call with a window that is not positive ends in an error and never
\* returns a sequence.
C7_InvalidWindowRaises ==
    length <= 0 => (~Returned /\ (pc = "done" => outcome = "threw"))

\* the points of the entries that are not null, in order
RECURSIVE DefinedPoints(_)
DefinedPoints(ps) ==
    IF ps = <<>> THEN <<>>
    ELSE IF Defined(Head(ps).value) THEN <<Head(ps)>> \o DefinedPoints(Tail(ps))
         ELSE DefinedPoints(Tail(ps))

\* C8: the points given to the RSI series are the (time, value) pairs of all
\* entries that are not null; a value of 0 is kept.
C8_AllDefinedPlotted ==
    (caller = "strategy" /\ pc = "done") =>
        rsiPoints = DefinedPoints(MapPoints(rsi, Len(closes)))

\* C9: when no fetchData call is in flight and none failed, the chart shows
\* the candles of the timeframe selected in tf-select.
C9_LatestSelectionShown ==
    (nCalls > 0 /\ calls = {} /\ ~failed) => chartData = tfSelect

\* C10: the refresh button is disabled while a fetchData call is in flight.
C10_DisabledWhileInFlight ==
    calls # {} => btnDisabled

====
